---- MODULE Spec2Model ----
(***************************************************************************)
(* Model of validation/verify_kerr.py: the Kerr formula evaluators, the    *)
(* reference comparator, the report aggregator and the command-line        *)
(* driver.                                                                 *)
(*                                                                         *)
(* Reals.  The program computes in IEEE doubles.  The model computes in    *)
(* decimal fixed point: a real x is the integer nearest to x * Scale, and  *)
(* every arithmetic operation rounds its exact result to that grid, as a   *)
(* floating-point operation rounds to its own.  All intermediate products  *)
(* stay below 2^31.                                                        *)
(***************************************************************************)
EXTENDS Integers, Sequences, FiniteSets

\* Resolution of the fixed-point grid: 1 unit = 1e-4.
Scale == 10000

--------------------------------------------------------------------------
(* Fixed-point arithmetic *)

Abs(x) == IF x < 0 THEN -x ELSE x
Min2(x, y) == IF x < y THEN x ELSE y
Max2(x, y) == IF x > y THEN x ELSE y

\* n / d rounded to the nearest integer (d > 0).
RoundDiv(n, d) == (n \div d) + (IF 2 * (n % d) >= d THEN 1 ELSE 0)

\* x * y
Mul(x, y) == RoundDiv(x * y, Scale)

\* x / y  (y > 0)
Div(x, y) == RoundDiv(x * Scale, y)

RECURSIVE SqrtSearch(_, _, _)
SqrtSearch(n, lo, hi) ==
    IF lo >= hi THEN lo
    ELSE LET mid == (lo + hi + 1) \div 2
         IN  IF mid * mid <= n THEN SqrtSearch(n, mid, hi)
             ELSE SqrtSearch(n, lo, mid - 1)

\* math.sqrt at Scale^2: the integer nearest to the square root of n, so that
\* ISqrt(x * y) is sqrt(x * y) on the grid for grid values x and y.
ISqrt(n) ==
    LET r == SqrtSearch(n, 0, 46340)
    IN  IF n - r * r > r THEN r + 1 ELSE r

\* r^3 / Scale, as <<integer part, remainder>>, without overflow for r <= 2 * Scale.
CubeParts(r) ==
    LET q == (r * r) \div Scale
        m == (r * r) % Scale
    IN  <<q * r + (m * r) \div Scale, (m * r) % Scale>>

\* r^3 <= x * Scale^2, exactly.
CubeLeq(r, x) ==
    LET c == CubeParts(r)
    IN  c[1] < x * Scale \/ (c[1] = x * Scale /\ c[2] = 0)

RECURSIVE CbrtSearch(_, _, _)
CbrtSearch(x, lo, hi) ==
    IF lo >= hi THEN lo
    ELSE LET mid == (lo + hi + 1) \div 2
         IN  IF CubeLeq(mid, x) THEN CbrtSearch(x, mid, hi)
             ELSE CbrtSearch(x, lo, mid - 1)

\* x ** (1 / 3) for 0 <= x <= 2, to the nearest grid point.
Cbrt(x) ==
    LET r == CbrtSearch(x, 0, 2 * Scale)
        below == x * Scale - CubeParts(r)[1]
        above == CubeParts(r + 1)[1] - x * Scale
    IN  IF above < below THEN r + 1 ELSE r

\* pi and pi / 2 on the grid.
Pi == 31416
HalfPi == 15708

\* sum_{k >= i} of the cosine series, term = (-1)^i x^(2i) / (2i)!
RECURSIVE CosSeries(_, _, _)
CosSeries(x2, term, i) ==
    IF term = 0 \/ i > 12 THEN 0
    ELSE term + CosSeries(x2, -RoundDiv(Mul(term, x2), (2 * i + 1) * (2 * i + 2)), i + 1)

\* math.cos(x) for |x| <= pi.
Cos(x) == CosSeries(Mul(x, x), Scale, 0)

\* sum_{k >= i} of the arcsine series; p = x^(2i+1) (2i)! / (4^i (i!)^2)
RECURSIVE AsinSeries(_, _, _)
AsinSeries(x2, p, i) ==
    IF p = 0 \/ i > 12 THEN 0
    ELSE RoundDiv(p, 2 * i + 1)
         + AsinSeries(x2, RoundDiv(Mul(p, x2) * (2 * i + 1), 2 * i + 2), i + 1)

\* asin(x) for |x| <= 1/2.
Asin(x) == AsinSeries(Mul(x, x), x, 0)

\* math.acos(x) for -1 <= x <= 1, by the usual range reduction.
Acos(x) ==
    IF 2 * Abs(x) <= Scale THEN HalfPi - Asin(x)
    ELSE IF x > 0 THEN 2 * Asin(ISqrt(((Scale - x) * Scale) \div 2))
    ELSE Pi - 2 * Asin(ISqrt(((Scale + x) * Scale) \div 2))

--------------------------------------------------------------------------
(* Formula evaluator *)

\* Clamp bounds of the evaluators.
ISCO_SPIN_MAX == 9980
PHOTON_SPIN_MAX == 9990
\* 1e-6 lies below the grid; its nearest grid point is 0.
PHOTON_SPIN_MIN == 0

\* Mutant: the clamp bound of photon_radius used for isco_radius.
IscoClampPhotonBound(spin) == Max2(Min2(spin, PHOTON_SPIN_MAX), -PHOTON_SPIN_MAX)

IscoClamp(spin) == Max2(Min2(spin, ISCO_SPIN_MAX), -ISCO_SPIN_MAX)

IscoZ1(a) ==
    LET term == Cbrt(Scale - Mul(a, a))
    IN  Scale + Mul(term, Cbrt(Scale + a) + Cbrt(Scale - a))

IscoZ2(a) == ISqrt(3 * a * a + IscoZ1(a) * IscoZ1(a))

\* The argument of the second square root, at Scale^2.
IscoRadicand(a) == (3 * Scale - IscoZ1(a)) * (3 * Scale + IscoZ1(a) + 2 * IscoZ2(a))

\* Mutant: the sign of the last term taken the wrong way round.
isco_radius_retrograde(spin) ==
    LET a == IscoClamp(spin)
        sign == IF a >= 0 THEN -1 ELSE 1
    IN  3 * Scale + IscoZ2(a) - sign * ISqrt(IscoRadicand(a))

isco_radius(spin) ==
    LET a == IscoClamp(spin)
        sign == IF a >= 0 THEN 1 ELSE -1
    IN  3 * Scale + IscoZ2(a) - sign * ISqrt(IscoRadicand(a))

photon_radius(spin) ==
    LET a == Max2(Min2(Abs(spin), PHOTON_SPIN_MAX), PHOTON_SPIN_MIN)
    IN  2 * (Scale + Cos(RoundDiv(2 * Acos(-a), 3)))

--------------------------------------------------------------------------
(* Physical constants, mantissas cut to four digits:                       *)
(* G in 1e-14 m^3 kg^-1 s^-2, C in 1e5 m/s, SOLAR_MASS in 1e27 kg.         *)
(* A mass is counted in units of 1e7 solar masses, a gravitational radius  *)
(* in units of 1e10 m.                                                     *)
G == 6674
C == 2998
SOLAR_MASS == 1988

gravitational_radius(mass_solar) == RoundDiv(2 * G * mass_solar * SOLAR_MASS, C * C)

--------------------------------------------------------------------------
(* Reference tables: a dict is its rows <<spin, expected>> in insertion order *)

REFERENCE_ISCO == << <<0, 60000>>, <<5000, 42330>>, <<9000, 23200>>, <<9980, 12370>> >>

REFERENCE_PHOTON == << <<0, 30000>>, <<5000, 23473>>, <<9000, 15579>>, <<9980, 10739>> >>

--------------------------------------------------------------------------
(* Reference comparator *)

\* The keys of a table.
Spins(reference) == {reference[i][1] : i \in 1..Len(reference)}

\* One trip of the loop body: the entry appended for the row (spin, expected).
\* fn is the callable passed in, as the function it is on the table's keys.
SeriesEntry(row, fn, label) ==
    LET value == fn[row[1]]
        rel_err == Div(Abs(value - row[2]), row[2])
    IN  <<label, row[1], rel_err>>

check_series(reference, fn, label) ==
    [i \in 1..Len(reference) |-> SeriesEntry(reference[i], fn, label)]

--------------------------------------------------------------------------
(* Report aggregator *)

\* Mutant: min() where max() is meant.
RECURSIVE SeqMin(_)
SeqMin(s) == IF Len(s) = 1 THEN s[1] ELSE Min2(s[1], SeqMin(Tail(s)))

RECURSIVE SeqMax(_)
SeqMax(s) == IF Len(s) = 1 THEN s[1] ELSE Max2(s[1], SeqMax(Tail(s)))

RECURSIVE SeqSum(_)
SeqSum(s) == IF s = <<>> THEN 0 ELSE s[1] + SeqSum(Tail(s))

\* statistics.fmean: the exact sum divided by the count, rounded once.
fmean(s) == RoundDiv(SeqSum(s), Len(s))

\* The outcome of a call: a returned value, or the exception that left it.
Returned(v) == [raised |-> "", value |-> <<v>>]
Raised(e) == [raised |-> e, value |-> <<>>]

\* max() of an empty list raises ValueError before fmean is reached.
summarize(errors) ==
    LET rel_vals == [i \in 1..Len(errors) |-> errors[i][3]]
    IN  IF rel_vals = <<>> THEN Raised("ValueError")
        ELSE Returned([max_rel_error |-> SeqMax(rel_vals),
                       mean_rel_error |-> fmean(rel_vals)])

\* The pass threshold 8e-3.
THRESHOLD == 80

\* Mutant: the threshold itself passes.
ReportOkInclusive(max_rel_error) == max_rel_error <= THRESHOLD

ReportOk(max_rel_error) == max_rel_error < THRESHOLD

\* Mutant: the entries listed last to first.
ReportEntriesReversed(errors) ==
    [i \in 1..Len(errors) |->
        [quantity |-> errors[Len(errors) + 1 - i][1],
         spin |-> errors[Len(errors) + 1 - i][2],
         relative_error |-> errors[Len(errors) + 1 - i][3]]]

ReportEntries(errors) ==
    [i \in 1..Len(errors) |->
        [quantity |-> errors[i][1], spin |-> errors[i][2], relative_error |-> errors[i][3]]]

\* Mutant: a non-positive mass fails the report.
BuildReportPositiveMass(mass_solar, grav_radius, summary, errors) ==
    [mass_solar |-> mass_solar,
     grav_radius_m |-> grav_radius,
     max_rel_error |-> summary.max_rel_error,
     mean_rel_error |-> summary.mean_rel_error,
     ok |-> (summary.max_rel_error < THRESHOLD /\ mass_solar > 0),
     entries |-> ReportEntries(errors)]

BuildReport(mass_solar, grav_radius, summary, errors) ==
    [mass_solar |-> mass_solar,
     grav_radius_m |-> grav_radius,
     max_rel_error |-> summary.max_rel_error,
     mean_rel_error |-> summary.mean_rel_error,
     ok |-> ReportOk(summary.max_rel_error),
     entries |-> ReportEntries(errors)]

\* json.dumps: the object's members as <<key, value>> pairs in insertion
\* order, a list as the sequence of its serialized items.
DumpEntry(e) ==
    << <<"quantity", e.quantity>>, <<"spin", e.spin>>, <<"relative_error", e.relative_error>> >>

json_dumps(report) ==
    << <<"mass_solar", <<report.mass_solar>> >>,
       <<"grav_radius_m", <<report.grav_radius_m>> >>,
       <<"max_rel_error", <<report.max_rel_error>> >>,
       <<"mean_rel_error", <<report.mean_rel_error>> >>,
       <<"ok", <<report.ok>> >>,
       <<"entries", [i \in 1..Len(report.entries) |-> DumpEntry(report.entries[i])]>> >>

--------------------------------------------------------------------------
(* Driver: argument parsing and output formatting *)

\* --mass default 6.5e8 and --out default.
DEFAULT_MASS == 65
DEFAULT_OUT == "validation_report.json"

\* float(token) on the tokens the model passes; any other text is no float.
ParseFloat(token) ==
    CASE token = "-3e7" -> Returned(-3)
      [] token = "0"    -> Returned(0)
      [] token = "1e7"  -> Returned(1)
      [] token = "6.5e8" -> Returned(65)
      [] OTHER          -> Raised("ValueError")

\* Mutant: a mass that is no float falls back to the default.
parse_args_lenient(av) ==
    LET mass == IF av.mass = "" THEN Returned(DEFAULT_MASS) ELSE ParseFloat(av.mass)
        out == IF av.out = "" THEN DEFAULT_OUT ELSE av.out
    IN  Returned([mass |-> IF mass.raised # "" THEN DEFAULT_MASS ELSE mass.value[1],
                  out |-> out])

\* parser.parse_args(argv): an absent flag ("") takes its default; a value
\* its type rejects ends the process through parser.error (SystemExit(2)).
parse_args(av) ==
    LET mass == IF av.mass = "" THEN Returned(DEFAULT_MASS) ELSE ParseFloat(av.mass)
        out == IF av.out = "" THEN DEFAULT_OUT ELSE av.out
    IN  IF mass.raised # "" THEN Raised("SystemExit")
        ELSE Returned([mass |-> mass.value[1], out |-> out])

RECURSIVE NormUp(_, _)
NormUp(m, e) == IF m >= 10000 THEN <<m, e>> ELSE NormUp(m * 10, e - 1)

RECURSIVE NormDown(_, _)
NormDown(m, e) == IF m < 100000 THEN <<m, e>> ELSE NormDown(RoundDiv(m, 10), e + 1)

\* format(v, ".4e") for v >= 0: <<mantissa, exponent>>, the text d.dddde+xx
\* with mantissa = ddddd.
Fmt4e(v) ==
    IF v = 0 THEN <<0, 0>>
    ELSE IF v >= 100000 THEN NormDown(v, 0)
    ELSE NormUp(v, 0)

\* Mutant: the tag decided by the mean error.
VerdictLineByMean(report) ==
    [verdict |-> IF report.mean_rel_error < THRESHOLD THEN "PASS" ELSE "FAIL",
     max_rel_error |-> Fmt4e(report.max_rel_error),
     mean_rel_error |-> Fmt4e(report.mean_rel_error)]

VerdictLine(report) ==
    [verdict |-> IF report.ok THEN "PASS" ELSE "FAIL",
     max_rel_error |-> Fmt4e(report.max_rel_error),
     mean_rel_error |-> Fmt4e(report.mean_rel_error)]

ExitStatus(report) == IF report.ok THEN 0 ELSE 1

--------------------------------------------------------------------------
(* State *)

\* Process invocations in one behaviour.
MaxRuns == 2
\* Longest list handed to summarize by the function harness.
MaxErrors == 3

\* Command-line tokens: "" is an absent flag, "abc" a malformed mass.
MassTokens == {"", "-3e7", "0", "1e7", "abc"}
OutTokens == {"", "out.json"}
Paths == {DEFAULT_OUT, "out.json"}

\* reference with the expected value of row k replaced.
WithExpected(reference, k, expected) ==
    [reference EXCEPT ![k] = <<reference[k][1], expected>>]

\* The tables a run may find in the module: the built-in ones, and the
\* regression check's, with one expected value replaced: off by 50%, and
\* (ISCO row 1) placed so that the relative error is the threshold itself.
IscoTables ==
    {REFERENCE_ISCO,
     WithExpected(REFERENCE_ISCO, 2, 63495),
     WithExpected(REFERENCE_ISCO, 1, 59523)}
PhotonTables ==
    {REFERENCE_PHOTON,
     WithExpected(REFERENCE_PHOTON, 3, 23368)}

\* Inputs of the function harness.
ErrorValues == {0, 4, 79, 80, 5000}
SpinInputs == {-15000, -10000, -9981, -9980, -5000, 0, 5000, 9000, 9980, 9981, 10000, 15000}

RECURSIVE SeqsUpTo(_, _)
SeqsUpTo(S, n) ==
    IF n = 0 THEN {<<>>}
    ELSE LET shorter == SeqsUpTo(S, n - 1)
         IN  shorter \cup {Append(q, x) : q \in shorter, x \in S}

ErrorLists == SeqsUpTo({<<"isco", 0, e>> : e \in ErrorValues}, MaxErrors)

VARIABLES
    reference_isco,    \* the module's REFERENCE_ISCO
    reference_photon,  \* the module's REFERENCE_PHOTON
    fs,                \* the file system: path -> <<>> (no file) or <<content>>
    runs,              \* invocations so far
    history,           \* finished runs: [argv, exit_status, report]
    argv,              \* this run's command line
    pc,                \* this run's position in main / run_checks
    args,              \* <<>> or <<the parsed namespace>>
    grav_radius,       \* run_checks' local, <<>> until assigned
    errors,            \* run_checks' list of (label, spin, rel_err)
    summary,           \* <<>> or <<summarize's result>>
    report,            \* <<>> or <<the report dict>>
    stdout,            \* lines printed by this run
    stderr,            \* lines on the error stream of this run
    exit_status,       \* <<>> while running, then <<status>>
    calls,             \* calls of run_checks by this run
    writes,            \* calls of write_text by this run
    events,            \* this run's effects in order: "write", "print", "exit"
    fn_name,           \* function harness: the function called, "" when idle
    fn_input,          \* function harness: the argument as the caller holds it
    fn_args,           \* function harness: the argument as the callee leaves it
    fn_outcome         \* function harness: <<>> or <<the call's outcome>>

machine == <<reference_isco, reference_photon, fs, runs, history>>
process == <<argv, pc, args, grav_radius, errors, summary, report, stdout, stderr,
             exit_status, calls, writes, events>>
harness == <<fn_name, fn_input, fn_args, fn_outcome>>
vars == <<machine, process, harness>>

NoArgv == [mass |-> "", out |-> ""]

ProcessInit ==
    /\ argv = NoArgv
    /\ pc = "idle"
    /\ args = <<>>
    /\ grav_radius = <<>>
    /\ errors = <<>>
    /\ summary = <<>>
    /\ report = <<>>
    /\ stdout = <<>>
    /\ stderr = <<>>
    /\ exit_status = <<>>
    /\ calls = 0
    /\ writes = 0
    /\ events = <<>>

HarnessInit ==
    /\ fn_name = ""
    /\ fn_input = <<>>
    /\ fn_args = <<>>
    /\ fn_outcome = <<>>

Init ==
    /\ reference_isco \in IscoTables
    /\ reference_photon \in PhotonTables
    /\ fs = [p \in Paths |-> <<>>]
    /\ runs = 0
    /\ history = <<>>
    /\ ProcessInit
    /\ HarnessInit

--------------------------------------------------------------------------
(* The process *)

Finished(status) ==
    Append(history, [argv |-> argv, exit_status |-> status, report |-> report])

\* The interpreter starts main(sys.argv[1:]) in a fresh process.
Invoke(mass, out) ==
    /\ pc \in {"idle", "done"}
    /\ runs < MaxRuns
    /\ runs' = runs + 1
    /\ argv' = [mass |-> mass, out |-> out]
    /\ pc' = "parse_args"
    /\ args' = <<>>
    /\ grav_radius' = <<>>
    /\ errors' = <<>>
    /\ summary' = <<>>
    /\ report' = <<>>
    /\ stdout' = <<>>
    /\ stderr' = <<>>
    /\ exit_status' = <<>>
    /\ calls' = 0
    /\ writes' = 0
    /\ events' = <<>>
    /\ UNCHANGED <<reference_isco, reference_photon, fs, history, harness>>

\* args = parser.parse_args(argv)
ParseArgs ==
    /\ pc = "parse_args"
    /\ LET parsed == parse_args(argv)
       IN  IF parsed.raised # ""
           THEN /\ stderr' = stderr \o <<"usage", "error">>
                /\ exit_status' = <<2>>
                /\ history' = Finished(<<2>>)
                /\ pc' = "done"
                /\ UNCHANGED args
           ELSE /\ args' = parsed.value
                /\ pc' = "run_checks"
                /\ UNCHANGED <<stderr, exit_status, history>>
    /\ UNCHANGED <<reference_isco, reference_photon, fs, runs, argv, grav_radius, errors,
                   summary, report, stdout, calls, writes, events, harness>>

\* run_checks(args.mass, args.out) is entered: grav_radius and the empty list.
EnterRunChecks ==
    /\ pc = "run_checks"
    /\ calls' = calls + 1
    /\ grav_radius' = <<gravitational_radius(args[1].mass)>>
    /\ errors' = <<>>
    /\ pc' = "check_isco"
    /\ UNCHANGED <<machine, argv, args, summary, report, stdout, stderr, exit_status,
                   writes, events, harness>>

\* errors.extend(check_series(REFERENCE_ISCO, isco_radius, "isco"))
CheckIsco ==
    /\ pc = "check_isco"
    /\ errors' = errors \o check_series(reference_isco,
                        [spin \in Spins(reference_isco) |-> isco_radius(spin)], "isco")
    /\ pc' = "check_photon"
    /\ UNCHANGED <<machine, argv, args, grav_radius, summary, report, stdout, stderr,
                   exit_status, calls, writes, events, harness>>

\* errors.extend(check_series(REFERENCE_PHOTON, photon_radius, "photon"))
CheckPhoton ==
    /\ pc = "check_photon"
    /\ errors' = errors \o check_series(reference_photon,
                        [spin \in Spins(reference_photon) |-> photon_radius(spin)], "photon")
    /\ pc' = "summarize"
    /\ UNCHANGED <<machine, argv, args, grav_radius, summary, report, stdout, stderr,
                   exit_status, calls, writes, events, harness>>

\* summary = summarize(errors); an exception is caught nowhere and ends the
\* process with a traceback and status 1.
Summarize ==
    /\ pc = "summarize"
    /\ LET outcome == summarize(errors)
       IN  IF outcome.raised # ""
           THEN /\ stderr' = Append(stderr, outcome.raised)
                /\ exit_status' = <<1>>
                /\ history' = Finished(<<1>>)
                /\ pc' = "done"
                /\ UNCHANGED summary
           ELSE /\ summary' = outcome.value
                /\ pc' = "build_report"
                /\ UNCHANGED <<stderr, exit_status, history>>
    /\ UNCHANGED <<reference_isco, reference_photon, fs, runs, argv, args, grav_radius,
                   errors, report, stdout, calls, writes, events, harness>>

\* report = {...}
MakeReport ==
    /\ pc = "build_report"
    /\ report' = <<BuildReport(args[1].mass, grav_radius[1], summary[1], errors)>>
    /\ pc' = "write_text"
    /\ UNCHANGED <<machine, argv, args, grav_radius, errors, summary, stdout, stderr,
                   exit_status, calls, writes, events, harness>>

\* Mutant: the report is written only when the checks passed.
WriteReportOnlyOk ==
    /\ pc = "write_text"
    /\ IF report[1].ok
       THEN /\ fs' = [fs EXCEPT ![args[1].out] = <<json_dumps(report[1])>>]
            /\ writes' = writes + 1
            /\ events' = Append(events, "write")
       ELSE UNCHANGED <<fs, writes, events>>
    /\ pc' = "print"
    /\ UNCHANGED <<reference_isco, reference_photon, runs, history, argv, args, grav_radius,
                   errors, summary, report, stdout, stderr, exit_status, calls, harness>>

\* output.write_text(json.dumps(report, indent=2)); return report
\* The write is taken to succeed (the directory exists and is writable); a
\* failing one would leave through an uncaught OSError.
WriteReport ==
    /\ pc = "write_text"
    /\ fs' = [fs EXCEPT ![args[1].out] = <<json_dumps(report[1])>>]
    /\ writes' = writes + 1
    /\ events' = Append(events, "write")
    /\ pc' = "print"
    /\ UNCHANGED <<reference_isco, reference_photon, runs, history, argv, args, grav_radius,
                   errors, summary, report, stdout, stderr, exit_status, calls, harness>>

\* print(f"[{verdict}] max_rel_error=... mean_rel_error=...")
PrintVerdict ==
    /\ pc = "print"
    /\ stdout' = Append(stdout, VerdictLine(report[1]))
    /\ events' = Append(events, "print")
    /\ pc' = "return"
    /\ UNCHANGED <<machine, argv, args, grav_radius, errors, summary, report, stderr,
                   exit_status, calls, writes, harness>>

\* return 0 if report["ok"] else 1, raised as SystemExit by the last line.
Return ==
    /\ pc = "return"
    /\ exit_status' = <<ExitStatus(report[1])>>
    /\ history' = Finished(<<ExitStatus(report[1])>>)
    /\ events' = Append(events, "exit")
    /\ pc' = "done"
    /\ UNCHANGED <<reference_isco, reference_photon, fs, runs, argv, args, grav_radius,
                   errors, summary, report, stdout, stderr, calls, writes, harness>>

Next ==
    \/ \E mass \in MassTokens, out \in OutTokens : Invoke(mass, out)
    \/ ParseArgs
    \/ EnterRunChecks
    \/ CheckIsco
    \/ CheckPhoton
    \/ Summarize
    \/ MakeReport
    \/ WriteReport
    \/ PrintVerdict
    \/ Return

Spec == Init /\ [][Next]_vars

--------------------------------------------------------------------------
(* The function harness: summarize and isco_radius on arbitrary arguments *)

FnInit ==
    /\ reference_isco = REFERENCE_ISCO
    /\ reference_photon = REFERENCE_PHOTON
    /\ fs = [p \in Paths |-> <<>>]
    /\ runs = 0
    /\ history = <<>>
    /\ ProcessInit
    /\ HarnessInit

FnCall(name, arg) ==
    /\ fn_name = ""
    /\ fn_name' = name
    /\ fn_input' = arg
    /\ fn_args' = arg
    /\ fn_outcome' = <<>>
    /\ UNCHANGED <<machine, process>>

\* summarize(errors): the list is read, never assigned.
RunSummarize ==
    /\ fn_name = "summarize"
    /\ fn_outcome = <<>>
    /\ fn_outcome' = <<summarize(fn_args)>>
    /\ UNCHANGED <<machine, process, fn_name, fn_input, fn_args>>

\* The arguments of the two square roots of isco_radius at clamped spin a, and
\* the bases of its fractional powers: a negative one is a domain error.
IscoDomainOk(a) ==
    /\ Scale - Mul(a, a) >= 0
    /\ Scale + a >= 0
    /\ Scale - a >= 0
    /\ 3 * a * a + IscoZ1(a) * IscoZ1(a) >= 0
    /\ IscoRadicand(a) >= 0

\* isco_radius(spin)
RunIsco ==
    /\ fn_name = "isco_radius"
    /\ fn_outcome = <<>>
    /\ fn_outcome' = <<IF IscoDomainOk(IscoClamp(fn_args))
                       THEN Returned(isco_radius(fn_args))
                       ELSE Raised("ValueError")>>
    /\ UNCHANGED <<machine, process, fn_name, fn_input, fn_args>>

FnReturn ==
    /\ fn_name # ""
    /\ fn_outcome # <<>>
    /\ fn_name' = ""
    /\ fn_input' = <<>>
    /\ fn_args' = <<>>
    /\ fn_outcome' = <<>>
    /\ UNCHANGED <<machine, process>>

FnNext ==
    \/ \E errs \in ErrorLists : FnCall("summarize", errs)
    \/ \E spin \in SpinInputs : FnCall("isco_radius", spin)
    \/ RunSummarize
    \/ RunIsco
    \/ FnReturn

SpecFn == FnInit /\ [][FnNext]_vars

--------------------------------------------------------------------------
(* Properties *)

\* The run's arguments parsed and the run is over.
RunDone == pc = "done" /\ args # <<>>

\* The content of the run's output file, once written.
OutDoc == fs[args[1].out][1]

RECURSIVE Pow10(_)
Pow10(n) == IF n = 0 THEN 1 ELSE 10 * Pow10(n - 1)

\* The grid value a printed d.dddde-xx stands for (exponent <= 0).
Decode(f) == f[1] \div Pow10(-f[2])

ReportKeys ==
    <<"mass_solar", "grav_radius_m", "max_rel_error", "mean_rel_error", "ok", "entries">>

\* The file holds every field of the report, with the report's values.
FileIsCompleteReport ==
    /\ fs[args[1].out] # <<>>
    /\ [i \in 1..Len(OutDoc) |-> OutDoc[i][1]] = ReportKeys
    /\ OutDoc[1][2] = <<report[1].mass_solar>>
    /\ OutDoc[2][2] = <<report[1].grav_radius_m>>
    /\ OutDoc[3][2] = <<report[1].max_rel_error>>
    /\ OutDoc[4][2] = <<report[1].mean_rel_error>>
    /\ OutDoc[5][2] = <<report[1].ok>>
    /\ Len(OutDoc[6][2]) = Len(errors)
    /\ \A i \in 1..Len(errors) :
          OutDoc[6][2][i] = << <<"quantity", errors[i][1]>>, <<"spin", errors[i][2]>>,
                               <<"relative_error", errors[i][3]>> >>

(* C1: for every run whose arguments parse, the exit status is 0 exactly
   when the report's max_rel_error is strictly below 8e-3, that is when
   every entry's relative error is below 8e-3, and 1 otherwise; a
   max_rel_error equal to 8e-3 gives ok = false and exit status 1. *)
C1_ExitStatusIffBelowThreshold ==
    RunDone =>
        /\ exit_status \in {<<0>>, <<1>>}
        /\ (exit_status = <<0>>) <=> (report[1].max_rel_error < THRESHOLD)
        /\ (exit_status = <<0>>) <=>
              (\A i \in 1..Len(report[1].entries) :
                  report[1].entries[i].relative_error < THRESHOLD)
        /\ report[1].ok <=> (exit_status = <<0>>)

\* C1 witness: a finished run whose max_rel_error is the threshold itself.
C1_Witness ==
    /\ RunDone
    /\ report[1].max_rel_error = THRESHOLD
    /\ ~report[1].ok
    /\ exit_status = <<1>>

(* C2: on every run whose arguments parse, whether ok is true or false,
   the program writes the complete report to the output path exactly once,
   and that write precedes the verdict line and the exit status. *)
C2_OneCompleteWriteBeforeVerdict ==
    /\ writes <= 1
    /\ (stdout # <<>> \/ (args # <<>> /\ exit_status # <<>>)) =>
          (writes = 1 /\ FileIsCompleteReport)
    /\ RunDone => events = <<"write", "print", "exit">>

\* C2 witness: a finished run whose validation failed and whose report is on file.
C2_Witness ==
    /\ RunDone
    /\ ~report[1].ok
    /\ exit_status = <<1>>
    /\ writes = 1
    /\ FileIsCompleteReport

(* C3: the report's entries are one entry per ISCO table row followed by
   one entry per photon table row, each group with the spins in the
   table's insertion order (0.0, 0.5, 0.9, 0.998); nothing is dropped,
   duplicated or reordered between check_series and the serialized report. *)
C3_EntriesInTableOrder ==
    report # <<>> =>
        LET es == report[1].entries
            n == Len(reference_isco)
        IN  /\ Len(es) = n + Len(reference_photon)
            /\ [i \in 1..Len(es) |-> es[i].quantity] =
                  <<"isco", "isco", "isco", "isco", "photon", "photon", "photon", "photon">>
            /\ [i \in 1..Len(es) |-> es[i].spin] =
                  <<0, 5000, 9000, 9980, 0, 5000, 9000, 9980>>
            /\ \A i \in 1..n :
                  es[i].relative_error =
                      Div(Abs(isco_radius(reference_isco[i][1]) - reference_isco[i][2]),
                          reference_isco[i][2])
            /\ \A i \in 1..Len(reference_photon) :
                  es[n + i].relative_error =
                      Div(Abs(photon_radius(reference_photon[i][1]) - reference_photon[i][2]),
                          reference_photon[i][2])
            /\ writes = 1 =>
                  /\ Len(OutDoc[6][2]) = Len(es)
                  /\ \A i \in 1..Len(es) :
                        OutDoc[6][2][i] =
                            << <<"quantity", es[i].quantity>>, <<"spin", es[i].spin>>,
                               <<"relative_error", es[i].relative_error>> >>

\* C3 witness: a written report whose first and last entries differ in error.
C3_Witness ==
    /\ RunDone
    /\ writes = 1
    /\ Len(report[1].entries) = 8
    /\ report[1].entries[2].relative_error # report[1].entries[7].relative_error
    /\ report[1].entries[1].relative_error # report[1].entries[8].relative_error

(* C4: a malformed --mass is rejected by the argument parser with a
   non-zero exit before any computation: run_checks is never called, no
   report is written and no verdict line is printed. *)
C4_MalformedMassRejected ==
    (argv.mass = "abc" /\ pc # "idle") =>
        /\ pc \in {"parse_args", "done"}
        /\ calls = 0
        /\ writes = 0
        /\ report = <<>>
        /\ stdout = <<>>
        /\ pc = "done" => (exit_status # <<>> /\ exit_status # <<0>>)

\* C4 witness: the parser has rejected "abc" and the process is over.
C4_Witness ==
    /\ argv.mass = "abc"
    /\ pc = "done"
    /\ exit_status = <<2>>
    /\ stderr # <<>>

(* C5: summarize called with an empty list reports a sentinel summary or
   an explicit error rather than failing inside the max or mean
   computation. *)
C5_SummarizeGuardsEmpty ==
    (fn_name = "summarize" /\ fn_input = <<>> /\ fn_outcome # <<>>) =>
        fn_outcome[1].raised \notin {"ValueError", "StatisticsError"}

(* C6: isco_radius saturates outside the clamp range: for spin >= 0.998 it
   equals isco_radius(0.998), for spin <= -0.998 it equals
   isco_radius(-0.998), and no such spin raises a domain error. *)
C6_IscoSaturates ==
    (fn_name = "isco_radius" /\ fn_outcome # <<>>) =>
        /\ fn_input >= ISCO_SPIN_MAX =>
              (fn_outcome[1].raised = "" /\ fn_outcome[1].value = <<isco_radius(ISCO_SPIN_MAX)>>)
        /\ fn_input <= -ISCO_SPIN_MAX =>
              (fn_outcome[1].raised = "" /\ fn_outcome[1].value = <<isco_radius(-ISCO_SPIN_MAX)>>)

\* C6 witness: isco_radius(1.5) has returned the value at 0.998.
C6_Witness ==
    /\ fn_name = "isco_radius"
    /\ fn_input = 15000
    /\ fn_outcome = <<Returned(12370)>>

(* C7: the driver prints exactly one line per run whose arguments parse;
   its tag is PASS exactly when ok is true (exit status 0) and FAIL exactly
   when ok is false (exit status 1), and the line carries the
   max_rel_error and mean_rel_error of the report just written. *)
C7_OneVerdictLine ==
    /\ Len(stdout) <= 1
    /\ RunDone =>
          /\ Len(stdout) = 1
          /\ stdout[1].verdict \in {"PASS", "FAIL"}
          /\ (stdout[1].verdict = "PASS") <=> (report[1].ok /\ exit_status = <<0>>)
          /\ (stdout[1].verdict = "FAIL") <=> (~report[1].ok /\ exit_status = <<1>>)
          /\ fs[args[1].out] # <<>>
          /\ OutDoc[3] = <<"max_rel_error", <<Decode(stdout[1].max_rel_error)>> >>
          /\ OutDoc[4] = <<"mean_rel_error", <<Decode(stdout[1].mean_rel_error)>> >>

\* C7 witness: a FAIL line whose two figures differ.
C7_Witness ==
    /\ RunDone
    /\ Len(stdout) = 1
    /\ stdout[1].verdict = "FAIL"
    /\ stdout[1].max_rel_error # stdout[1].mean_rel_error
    /\ exit_status = <<1>>

(* C8: with the built-in reference tables every entry's relative error is
   below 0.8%, so a run (mass = 6.5e8 included) produces a report with
   ok = true and max_rel_error < 8e-3 and returns exit status 0. *)
C8_BuiltInTablesPass ==
    (reference_isco = REFERENCE_ISCO /\ reference_photon = REFERENCE_PHOTON) =>
        /\ \A i \in 1..Len(errors) : errors[i][3] < THRESHOLD
        /\ RunDone =>
              /\ Len(errors) = 8
              /\ report[1].ok
              /\ report[1].max_rel_error < THRESHOLD
              /\ exit_status = <<0>>
              /\ fs[args[1].out] # <<>>
              /\ OutDoc[5] = <<"ok", <<TRUE>> >>

\* C8 witness: the default run (mass 6.5e8, default path) has passed.
C8_Witness ==
    /\ reference_isco = REFERENCE_ISCO
    /\ reference_photon = REFERENCE_PHOTON
    /\ argv = NoArgv
    /\ RunDone
    /\ report[1].mass_solar = DEFAULT_MASS
    /\ exit_status = <<0>>
    /\ fs[DEFAULT_OUT] # <<>>

(* C9: for every non-empty list, summarize returns the largest relative
   error as max_rel_error and the arithmetic mean as mean_rel_error, so
   mean_rel_error <= max_rel_error; for a single entry both equal that
   entry's error; the input list is left unchanged. *)
C9_SummarizeMaxMean ==
    (fn_name = "summarize" /\ fn_input # <<>> /\ fn_outcome # <<>>) =>
        LET n == Len(fn_input)
            total == SeqSum([i \in 1..n |-> fn_input[i][3]])
        IN  /\ fn_outcome[1].raised = ""
            /\ LET r == fn_outcome[1].value[1]
               IN  /\ \A i \in 1..n : fn_input[i][3] <= r.max_rel_error
                   /\ \E i \in 1..n : fn_input[i][3] = r.max_rel_error
                   /\ 2 * Abs(n * r.mean_rel_error - total) <= n
                   /\ r.mean_rel_error <= r.max_rel_error
                   /\ n = 1 => (r.max_rel_error = fn_input[1][3]
                                /\ r.mean_rel_error = fn_input[1][3])
            /\ fn_args = fn_input

\* C9 witness: summarize has returned for a list whose mean is below its max.
C9_Witness ==
    /\ fn_name = "summarize"
    /\ Len(fn_input) = 3
    /\ fn_outcome # <<>>
    /\ fn_outcome[1].raised = ""
    /\ fn_outcome[1].value[1].max_rel_error = 5000
    /\ fn_outcome[1].value[1].mean_rel_error < 5000
    /\ fn_outcome[1].value[1].mean_rel_error > 0

\* The mass a --mass token stands for, in units of 1e7 solar masses.
MassOf(token) ==
    CASE token = "" -> 65
      [] token = "-3e7" -> -3
      [] token = "0" -> 0
      [] token = "1e7" -> 1

(* C10: the verdict does not depend on the mass: any two runs, zero and
   negative masses included, produce reports with the same ok,
   max_rel_error, mean_rel_error and entries and the same exit status;
   mass_solar echoes the input. *)
C10_VerdictIndependentOfMass ==
    /\ \A i \in 1..Len(history) :
          history[i].argv.mass # "abc" =>
              /\ history[i].report # <<>>
              /\ history[i].exit_status \in {<<0>>, <<1>>}
              /\ history[i].report[1].mass_solar = MassOf(history[i].argv.mass)
    /\ \A i, j \in 1..Len(history) :
          (history[i].report # <<>> /\ history[j].report # <<>>) =>
              /\ history[i].report[1].ok = history[j].report[1].ok
              /\ history[i].report[1].max_rel_error = history[j].report[1].max_rel_error
              /\ history[i].report[1].mean_rel_error = history[j].report[1].mean_rel_error
              /\ history[i].report[1].entries = history[j].report[1].entries
              /\ history[i].exit_status = history[j].exit_status

\* C10 witness: a run with a negative mass and a run with the default mass,
\* whose reports differ in mass_solar and grav_radius_m.
C10_Witness ==
    /\ Len(history) = 2
    /\ history[1].report # <<>>
    /\ history[2].report # <<>>
    /\ history[1].report[1].mass_solar = -3
    /\ history[2].report[1].mass_solar = 65
    /\ history[1].report[1].grav_radius_m < 0
    /\ history[2].report[1].grav_radius_m > 0

====
